---------------------------- MODULE Spec2Model ----------------------------
(***************************************************************************)
(* A model of cookiecutter/context.py: the construction of the version 2  *)
(* template (Variable.__init__, CookiecutterTemplate.__init__) and the    *)
(* sequential walk of load_context over the declared variables.           *)
(*                                                                         *)
(* Python str values are sequences of tokens.  A token is one character,  *)
(* or one of the jinja2 placeholders "{{a}}", "{{b}}", "{{c}}", "{{_p}}"  *)
(* standing for the text {{ cookiecutter.<name> }}, or (in a regular      *)
(* expression) the character class "[a-z]".                                *)
(*                                                                         *)
(* Python values are records [t, b, n, s]: t is the Python type, and the  *)
(* field that belongs to the type holds the value.                         *)
(***************************************************************************)
EXTENDS Integers, Sequences, FiniteSets, TLC

\* ----------------------------------------------------------------- values

NoneV == [t |-> "none", b |-> FALSE, n |-> 0, s |-> <<>>]

BoolV(x) == [t |-> "bool", b |-> x, n |-> 0, s |-> <<>>]

IntV(x) == [t |-> "int", b |-> FALSE, n |-> x, s |-> <<>>]

StrV(x) == [t |-> "str", b |-> FALSE, n |-> 0, s |-> x]

\* A float; the model holds the integral ones, n being the value, and the
\* not-a-number NaNV, which b marks.
FloatV(x) == [t |-> "float", b |-> FALSE, n |-> x, s |-> <<>>]

NaNV == [t |-> "float", b |-> TRUE, n |-> 0, s |-> <<>>]

\* A list of str and a dict with str keys, s holding the items and the keys.
ListV(x) == [t |-> "list", b |-> FALSE, n |-> 0, s |-> x]

DictV(x) == [t |-> "dict", b |-> FALSE, n |-> 0, s |-> x]

\* The result of a call that may raise: ok and the value, or the exception.
Ok(v) == [ok |-> TRUE, val |-> v, err |-> "none"]

Raise(e) == [ok |-> FALSE, val |-> NoneV, err |-> e]

\* Python's ==: the numbers compare by value, and bool is 0 / 1 among them;
\* a NaN equals nothing, itself included.
PyNum(v) == IF v.t = "bool" THEN (IF v.b THEN 1 ELSE 0) ELSE v.n

PyEq(v, w) ==
    IF v = NaNV \/ w = NaNV THEN FALSE
    ELSE IF v.t \in {"bool", "int", "float"} /\ w.t \in {"bool", "int", "float"}
    THEN PyNum(v) = PyNum(w)
    ELSE v = w

\* ---------------------------------------------------------------- strings

Digits == <<"0", "1", "2", "3", "4", "5", "6", "7", "8", "9">>

DigitChars == {Digits[k] : k \in 1..10}

DigitValue(c) == (CHOOSE k \in 1..10 : Digits[k] = c) - 1

RECURSIVE NatStr(_)
NatStr(n) == IF n < 10 THEN <<Digits[n + 1]>> ELSE NatStr(n \div 10) \o <<Digits[(n % 10) + 1]>>

\* str(int)
IntStr(n) == IF n < 0 THEN <<"-">> \o NatStr(0 - n) ELSE NatStr(n)

RECURSIVE DigitsValue(_)
DigitsValue(s) ==
    IF s = <<>> THEN 0 ELSE 10 * DigitsValue(SubSeq(s, 1, Len(s) - 1)) + DigitValue(s[Len(s)])

IsDigits(s) == Len(s) > 0 /\ \A k \in 1..Len(s) : s[k] \in DigitChars

\* int(str): an optional sign and decimal digits, ValueError otherwise.
ParseInt(s) ==
    IF IsDigits(s) THEN Ok(IntV(DigitsValue(s)))
    ELSE IF Len(s) > 1 /\ s[1] = "-" /\ IsDigits(Tail(s)) THEN Ok(IntV(0 - DigitsValue(Tail(s))))
    ELSE IF Len(s) > 1 /\ s[1] = "+" /\ IsDigits(Tail(s)) THEN Ok(IntV(DigitsValue(Tail(s))))
    ELSE Raise("ValueError")

\* The items of a list of str as str(list) writes them: 'x', 'y'.
RECURSIVE QuotedItems(_)
QuotedItems(items) ==
    IF items = <<>> THEN <<>>
    ELSE <<"'", Head(items), "'">>
         \o (IF Len(items) > 1 THEN <<",", " ">> ELSE <<>>) \o QuotedItems(Tail(items))

\* str(value), also what jinja2 writes for a value.
PyStr(v) ==
    CASE v.t = "str" -> v.s
      [] v.t = "bool" -> IF v.b THEN <<"T", "r", "u", "e">> ELSE <<"F", "a", "l", "s", "e">>
      [] v.t = "int" -> IntStr(v.n)
      [] v.t = "float" -> IF v = NaNV THEN <<"n", "a", "n">> ELSE IntStr(v.n) \o <<".", "0">>
      [] v.t = "none" -> <<"N", "o", "n", "e">>
      [] v.t = "list" -> <<"[">> \o QuotedItems(v.s) \o <<"]">>
      [] v.t = "dict" /\ v.s = <<>> -> <<"{", "}">>

\* bool(value)
PyBool(v) ==
    CASE v.t = "str" -> Len(v.s) > 0
      [] v.t = "bool" -> v.b
      [] v.t \in {"int", "float"} -> v = NaNV \/ v.n # 0
      [] v.t \in {"list", "dict"} -> Len(v.s) > 0
      [] OTHER -> FALSE

Lowers ==
    <<"a", "b", "c", "d", "e", "f", "g", "h", "i", "j", "k", "l", "m",
      "n", "o", "p", "q", "r", "s", "t", "u", "v", "w", "x", "y", "z">>

Uppers ==
    <<"A", "B", "C", "D", "E", "F", "G", "H", "I", "J", "K", "L", "M",
      "N", "O", "P", "Q", "R", "S", "T", "U", "V", "W", "X", "Y", "Z">>

LowerChars == {Lowers[k] : k \in 1..26}

UpperChars == {Uppers[k] : k \in 1..26}

\* str.lower() of one character.
Fold(c) == IF c \in UpperChars THEN Lowers[CHOOSE k \in 1..26 : Uppers[k] = c] ELSE c

\* str.startswith(prefix) for a one-character prefix.
StartsWith(s, c) == Len(s) > 0 /\ s[1] = c

\* ------------------------------------------------------------------ names

NameA == <<"a">>

NameB == <<"b">>

NameC == <<"c">>

\* A private name: it begins with an underscore.
NameP == <<"_", "p">>

\* A name no variable of any template has.
NameZ == <<"z">>

\* None, for an optional str that the code only tests for truth: None and ''
\* are both false there, and neither is ever assigned or compared.
NoName == <<>>

EXTENSIONS_KEY == <<"_", "e", "x", "t", "e", "n", "s", "i", "o", "n", "s">>

JINJA2_ENV_VARS_KEY ==
    <<"_", "j", "i", "n", "j", "a", "2", "_", "e", "n", "v", "_", "v", "a", "r", "s">>

\* ---------------------------------------------------------------- context
\* The OrderedDict: a sequence of entries [name, value] in insertion order.

Keys(ctx) == [k \in 1..Len(ctx) |-> ctx[k].name]

HasKey(ctx, name) == \E k \in 1..Len(ctx) : ctx[k].name = name

Lookup(ctx, name) == ctx[CHOOSE k \in 1..Len(ctx) : ctx[k].name = name].value

\* A mapping that puts a new key first.
SetItem_Front(ctx, name, value) ==
    IF HasKey(ctx, name)
    THEN [k \in 1..Len(ctx) |-> IF ctx[k].name = name THEN [name |-> name, value |-> value] ELSE ctx[k]]
    ELSE <<[name |-> name, value |-> value]>> \o ctx

\* A mapping that forgets its other keys.
SetItem_Alone(ctx, name, value) == <<[name |-> name, value |-> value]>>

\* context[name] = value: a new key goes last, a known key keeps its place.
SetItem(ctx, name, value) ==
    IF HasKey(ctx, name)
    THEN [k \in 1..Len(ctx) |-> IF ctx[k].name = name THEN [name |-> name, value |-> value] ELSE ctx[k]]
    ELSE Append(ctx, [name |-> name, value |-> value])

\* ------------------------------------------------------- jinja2 rendering

RefTokens == {"{{a}}", "{{b}}", "{{c}}", "{{_p}}"}

RefName(tok) ==
    CASE tok = "{{a}}" -> NameA
      [] tok = "{{b}}" -> NameB
      [] tok = "{{c}}" -> NameC
      [] tok = "{{_p}}" -> NameP

\* One token rendered: {{ cookiecutter.x }} writes str(context[x]), and nothing
\* when x is undefined; any other token is literal text.
RenderToken(tok, ctx) ==
    IF tok \in RefTokens
    THEN (IF HasKey(ctx, RefName(tok)) THEN PyStr(Lookup(ctx, RefName(tok))) ELSE <<>>)
    ELSE <<tok>>

RECURSIVE jinja_render(_, _)
jinja_render(string, ctx) ==
    IF string = <<>> THEN <<>>
    ELSE RenderToken(Head(string), ctx) \o jinja_render(Tail(string), ctx)

TrueText == <<"T", "r", "u", "e">>

FalseText == <<"F", "a", "l", "s", "e">>

\* ---------------------------------------------------- regular expressions
\* The re module on the patterns of this model: an optional "^", then atoms
\* (a character or the class "[a-z]"), each optionally followed by "+", then
\* an optional "$".

REGEX_COMPILE_FLAGS ==
    [ascii |-> "ASCII", debug |-> "DEBUG", ignorecase |-> "IGNORECASE", locale |-> "LOCALE",
     mulitline |-> "MULTILINE", dotall |-> "DOTALL", verbose |-> "VERBOSE"]

MetaTokens == {"^", "$", "+", "(", ")"}

StripCaret(p) == IF Len(p) > 0 /\ p[1] = "^" THEN Tail(p) ELSE p

StripDollar(p) == IF Len(p) > 0 /\ p[Len(p)] = "$" THEN SubSeq(p, 1, Len(p) - 1) ELSE p

\* The atoms of a pattern body, [tok, plus]; <<[tok |-> "error"]>> marks a body
\* that does not compile (nothing to repeat, an unbalanced parenthesis).
RECURSIVE ParseAtoms(_)
ParseAtoms(p) ==
    IF p = <<>> THEN <<>>
    ELSE IF p[1] \in MetaTokens THEN <<[tok |-> "error", plus |-> FALSE]>>
    ELSE IF Len(p) > 1 /\ p[2] = "+"
         THEN <<[tok |-> p[1], plus |-> TRUE]>> \o ParseAtoms(SubSeq(p, 3, Len(p)))
         ELSE <<[tok |-> p[1], plus |-> FALSE]>> \o ParseAtoms(Tail(p))

NoPattern == [on |-> FALSE, atoms |-> <<>>, dollar |-> FALSE, icase |-> FALSE]

\* re.compile(pattern, flags): the compiled pattern, or re.error, or the
\* ValueError re.compile raises for re.LOCALE with a str pattern.
re_compile(pattern, flags) ==
    LET atoms == ParseAtoms(StripDollar(StripCaret(pattern)))
    IN  IF "LOCALE" \in flags THEN Raise("ValueError")
        ELSE IF \E k \in 1..Len(atoms) : atoms[k].tok = "error" THEN Raise("re.error")
        ELSE [ok |-> TRUE,
              val |-> [on |-> TRUE, atoms |-> atoms,
                       dollar |-> (Len(pattern) > 0 /\ pattern[Len(pattern)] = "$"),
                       icase |-> ("IGNORECASE" \in flags)],
              err |-> "none"]

AtomAccepts(tok, c, icase) ==
    IF tok = "[a-z]"
    THEN c \in LowerChars \/ (icase /\ c \in UpperChars)
    ELSE c = tok \/ (icase /\ Fold(c) = Fold(tok))

\* Whether atoms k.. of the pattern match s from position pos on.
RECURSIVE MatchAt(_, _, _, _)
MatchAt(pat, k, s, pos) ==
    IF k > Len(pat.atoms)
    THEN (~pat.dollar) \/ pos = Len(s) + 1 \/ (pos = Len(s) /\ s[pos] = "\n")
    ELSE IF pat.atoms[k].plus
         THEN \E m \in 1..(Len(s) - pos + 1) :
                 /\ \A j \in pos..(pos + m - 1) : AtomAccepts(pat.atoms[k].tok, s[j], pat.icase)
                 /\ MatchAt(pat, k + 1, s, pos + m)
         ELSE /\ pos <= Len(s)
              /\ AtomAccepts(pat.atoms[k].tok, s[pos], pat.icase)
              /\ MatchAt(pat, k + 1, s, pos + 1)

\* Pattern.match(value): a match at the start of the string, TypeError for a
\* value that is no str.
re_match(pat, value) ==
    IF value.t # "str" THEN Raise("TypeError")
    ELSE Ok(BoolV(MatchAt(pat, 1, value.s, 1)))

\* ---------------------------------------------------- validate_requirement
\* A str is the sequence of its characters.  packaging's version.parse on the
\* versions of this model: dotted decimal numbers (a release segment), white
\* space around them ignored; InvalidVersion for any other text.

\* str.split(sep) for a one-character sep.
RECURSIVE PySplit(_, _)
PySplit(s, sep) ==
    IF \A k \in 1..Len(s) : s[k] # sep THEN <<s>>
    ELSE LET i == CHOOSE k \in 1..Len(s) : s[k] = sep /\ \A j \in 1..(k - 1) : s[j] # sep
         IN  <<SubSeq(s, 1, i - 1)>> \o PySplit(SubSeq(s, i + 1, Len(s)), sep)

\* str.strip() of blanks.
RECURSIVE PyStrip(_)
PyStrip(s) ==
    IF s = <<>> THEN s
    ELSE IF s[1] = " " THEN PyStrip(Tail(s))
    ELSE IF s[Len(s)] = " " THEN PyStrip(SubSeq(s, 1, Len(s) - 1))
    ELSE s

\* s[:n] and s[n:].
SliceTo(s, n) == SubSeq(s, 1, IF n < Len(s) THEN n ELSE Len(s))

SliceFrom(s, n) == SubSeq(s, n + 1, Len(s))

\* The keys of op_mapping, each standing for its operator.
op_mapping == {<<"=", "=">>, <<"<">>, <<"<", "=">>, <<">">>, <<">", "=">>}

\* The release of a version without its trailing zeros: 1.0 and 1.0.0 are equal.
RECURSIVE StripZeros(_)
StripZeros(release) ==
    IF release # <<>> /\ release[Len(release)] = 0
    THEN StripZeros(SubSeq(release, 1, Len(release) - 1))
    ELSE release

\* version.parse(text): the release as a tuple of numbers.
version_parse(text) ==
    LET parts == PySplit(PyStrip(text), ".")
    IN  IF \A k \in 1..Len(parts) : IsDigits(parts[k])
        THEN [ok |-> TRUE, val |-> StripZeros([k \in 1..Len(parts) |-> DigitsValue(parts[k])]),
              err |-> "none"]
        ELSE Raise("InvalidVersion")

\* The order of tuples: x < y.
RECURSIVE TupleLess(_, _)
TupleLess(x, y) ==
    IF y = <<>> THEN FALSE
    ELSE IF x = <<>> THEN TRUE
    ELSE IF x[1] # y[1] THEN x[1] < y[1]
    ELSE TupleLess(Tail(x), Tail(y))

\* operator(x, y) for the operator op_mapping has under key.
ApplyOperator(key, x, y) ==
    CASE key = <<"=", "=">> -> x = y
      [] key = <<"<">> -> TupleLess(x, y)
      [] key = <<"<", "=">> -> TupleLess(x, y) \/ x = y
      [] key = <<">">> -> TupleLess(y, x)
      [] key = <<">", "=">> -> TupleLess(y, x) \/ x = y

\* The one-character keys tried before the two-character ones.
validate_single_req_OneFirst(req_str, pkg_version) ==
    LET two == SliceTo(req_str, 2)
        one == SliceTo(req_str, 1)
        key == IF one \in op_mapping THEN one ELSE IF two \in op_mapping THEN two
               ELSE <<"=", "=">>
        version_ref == IF one \in op_mapping THEN SliceFrom(req_str, 1)
                       ELSE IF two \in op_mapping THEN SliceFrom(req_str, 2)
                       ELSE req_str
        pkg == version_parse(pkg_version)
        ref == version_parse(version_ref)
    IN  IF ~pkg.ok THEN Raise(pkg.err)
        ELSE IF ~ref.ok THEN Raise(ref.err)
        ELSE Ok(BoolV(ApplyOperator(key, pkg.val, ref.val)))

\* Lines 67-78.
validate_single_req(req_str, pkg_version) ==
    LET two == SliceTo(req_str, 2)
        one == SliceTo(req_str, 1)
        key == IF two \in op_mapping THEN two ELSE IF one \in op_mapping THEN one
               ELSE <<"=", "=">>
        version_ref == IF two \in op_mapping THEN SliceFrom(req_str, 2)
                       ELSE IF one \in op_mapping THEN SliceFrom(req_str, 1)
                       ELSE req_str
        pkg == version_parse(pkg_version)
        ref == version_parse(version_ref)
    IN  IF ~pkg.ok THEN Raise(pkg.err)
        ELSE IF ~ref.ok THEN Raise(ref.err)
        ELSE Ok(BoolV(ApplyOperator(key, pkg.val, ref.val)))

\* all(map(validate_single_req, req_list)): the clauses are checked in order
\* up to the first that is false or raises.
RECURSIVE AllReqs(_, _)
AllReqs(req_list, pkg_version) ==
    IF req_list = <<>> THEN Ok(BoolV(TRUE))
    ELSE LET first == validate_single_req(Head(req_list), pkg_version)
         IN  IF ~first.ok THEN first
             ELSE IF ~first.val.b THEN first
             ELSE AllReqs(Tail(req_list), pkg_version)

\* Lines 55-80.
validate_requirement(req_long_str, pkg_version) ==
    LET clauses == PySplit(req_long_str, ",")
    IN  AllReqs([k \in 1..Len(clauses) |-> PyStrip(clauses[k])], pkg_version)

\* ------------------------------------------------------------ deserializers

\* repr(value) in place of str(value).
deserialize_string_Repr(value) == Ok(StrV(<<"'">> \o PyStr(value) \o <<"'">>))

deserialize_string(value) == Ok(StrV(PyStr(value)))

deserialize_boolean(value) == Ok(BoolV(PyBool(value)))

deserialize_yes_no(value) == Ok(BoolV(PyBool(value)))

deserialize_int(value) ==
    CASE value.t = "int" -> Ok(value)
      [] value.t = "bool" -> Ok(IntV(PyNum(value)))
      [] value.t = "float" -> IF value = NaNV THEN Raise("ValueError") ELSE Ok(IntV(value.n))
      [] value.t = "str" -> ParseInt(value.s)
      [] OTHER -> Raise("TypeError")

\* float(str) for the integral literals, "3" and "3.0", and for "nan".
ParseFloat(s) ==
    IF [k \in 1..Len(s) |-> Fold(s[k])] = <<"n", "a", "n">> THEN Ok(NaNV)
    ELSE IF ParseInt(s).ok THEN Ok(FloatV(ParseInt(s).val.n))
    ELSE IF Len(s) > 2 /\ SubSeq(s, Len(s) - 1, Len(s)) = <<".", "0">>
            /\ ParseInt(SubSeq(s, 1, Len(s) - 2)).ok
         THEN Ok(FloatV(ParseInt(SubSeq(s, 1, Len(s) - 2)).val.n))
         ELSE Raise("ValueError")

deserialize_float(value) ==
    CASE value = NaNV -> Ok(NaNV)
      [] value # NaNV /\ value.t \in {"int", "bool", "float"} -> Ok(FloatV(PyNum(value)))
      [] value.t = "str" -> ParseFloat(value.s)
      [] OTHER -> Raise("TypeError")

HexChars == DigitChars \cup {Lowers[k] : k \in 1..6} \cup {Uppers[k] : k \in 1..6}

UUID_HEX_LEN == 32

\* click.UUID(value).hex: the dashes dropped, 32 hexadecimal digits in lower
\* case; click's BadParameter for any other str.
deserialize_uuid(value) ==
    IF value.t # "str" THEN Raise("TypeError")
    ELSE LET hex == SelectSeq(value.s, LAMBDA c : c # "-")
         IN  IF Len(hex) = UUID_HEX_LEN /\ \A k \in 1..Len(hex) : hex[k] \in HexChars
             THEN Ok(StrV([k \in 1..Len(hex) |-> Fold(hex[k])]))
             ELSE Raise("BadParameter")

deserialize_json(value) == Ok(value)

DESERIALIZERS(var_type, value) ==
    CASE var_type = "string" -> deserialize_string(value)
      [] var_type = "boolean" -> deserialize_boolean(value)
      [] var_type = "int" -> deserialize_int(value)
      [] var_type = "float" -> deserialize_float(value)
      [] var_type = "uuid" -> deserialize_uuid(value)
      [] var_type = "json" -> deserialize_json(value)
      [] var_type = "yes_no" -> deserialize_yes_no(value)
      [] OTHER -> Raise("KeyError")

\* -------------------------------------------------------------- Variable
\* A declaration is the keyword arguments of Variable(**v): has_default says
\* whether "default" is a key of info; an absent optional str is NoName, an
\* absent validation <<>>, an absent list <<>>, an absent prompt_user TRUE.

Declaration(name, type) ==
    [name |-> name, type |-> type, has_default |-> FALSE, default |-> NoneV,
     skip_if |-> <<>>, do_if |-> <<>>, if_yes_skip_to |-> NoName, if_no_skip_to |-> NoName,
     prompt_user |-> TRUE, choices |-> <<>>, validation |-> <<>>, validation_flags |-> <<>>]

InChoices(choices, value) == \E k \in 1..Len(choices) : PyEq(choices[k], value)

\* The flags of the names, or KeyError at a name REGEX_COMPILE_FLAGS lacks.
ValidationFlags(flag_names) ==
    IF \E k \in 1..Len(flag_names) : flag_names[k] \notin DOMAIN REGEX_COMPILE_FLAGS
    THEN Raise("KeyError")
    ELSE [ok |-> TRUE, val |-> {REGEX_COMPILE_FLAGS[flag_names[k]] : k \in 1..Len(flag_names)},
          err |-> "none"]

\* The underscore rule left out.
PromptUserOf_Declared(info) == info.prompt_user

\* Lines 365-368: prompt_user after construction.
PromptUserOf(info) == IF StartsWith(info.name, "_") THEN FALSE ELSE info.prompt_user

\* The validation block: the compiled pattern (NoPattern without validation),
\* or the exception raised.
ValidationSetup(info) ==
    IF info.validation = <<>> THEN Ok(NoPattern)
    ELSE LET flags == ValidationFlags(info.validation_flags)
         IN  IF ~flags.ok THEN Raise(flags.err)
             ELSE LET compiled == re_compile(info.validation, flags.val)
                  IN  IF ~compiled.ok
                      THEN Raise(IF compiled.err = "re.error" THEN "ValueError:regex"
                                 ELSE "ValueError:locale")
                      ELSE IF info.type # "string" THEN Raise("ValueError:non-string")
                      ELSE compiled

\* The test for an explicit default left out.
ChoicesMismatch_WithoutExplicit(info) ==
    /\ Len(info.choices) > 0
    /\ ~InChoices(info.choices, info.default)

\* Line 373.
ChoicesMismatch(info) ==
    /\ Len(info.choices) > 0
    /\ info.has_default
    /\ ~InChoices(info.choices, info.default)

\* Variable.__init__: the constructed variable, or the exception raised.
VariableInit(info) ==
    IF ChoicesMismatch(info) THEN Raise("ValueError:choices")
    ELSE LET validate == ValidationSetup(info)
         IN  IF ~validate.ok THEN Raise(validate.err)
             ELSE [ok |-> TRUE,
                   val |-> [name |-> info.name, var_type |-> info.type,
                            default |-> info.default,
                            skip_if |-> info.skip_if, do_if |-> info.do_if,
                            if_yes_skip_to |-> info.if_yes_skip_to,
                            if_no_skip_to |-> info.if_no_skip_to,
                            prompt_user |-> PromptUserOf(info),
                            choices |-> info.choices,
                            validate |-> validate.val],
                   err |-> "none"]

\* ------------------------------------------------------ the prompt boundary
\* What one call of a prompt strategy can return.  click.prompt returns the
\* operator's input converted to the type, or, on an empty input, the default
\* as it was passed.

UserStrings == {<<"a", "b">>, <<"A", "B">>}

UserInts == {5}

WithDefault(values, default) == IF default.t = "none" THEN values ELSE values \cup {default}

prompt_string(variable, default) == WithDefault({StrV(x) : x \in UserStrings}, default)

prompt_boolean(variable, default) == WithDefault({BoolV(TRUE), BoolV(FALSE)}, default)

prompt_int(variable, default) == WithDefault({IntV(x) : x \in UserInts}, default)

prompt_float(variable, default) == WithDefault({FloatV(x) : x \in UserInts}, default)

\* The displayed default is 'y' or 'n', never None; when it comes back the
\* default itself is returned, whatever it is.
prompt_yes_no(variable, default) == {BoolV(TRUE), BoolV(FALSE), default}

\* json.loads(text) on the texts of this model: {}, [], true, false, null, a
\* decimal number and a string in double quotes; ValueError for any other.
json_loads(text) ==
    CASE text = <<"{", "}">> -> Ok(DictV(<<>>))
      [] text = <<"[", "]">> -> Ok(ListV(<<>>))
      [] text = <<"t", "r", "u", "e">> -> Ok(BoolV(TRUE))
      [] text = <<"f", "a", "l", "s", "e">> -> Ok(BoolV(FALSE))
      [] text = <<"n", "u", "l", "l">> -> Ok(NoneV)
      [] IsDigits(text) -> Ok(IntV(DigitsValue(text)))
      [] Len(text) >= 2 /\ text[1] = "\"" /\ text[Len(text)] = "\""
            /\ \A k \in 2..(Len(text) - 1) : text[k] \notin {"\"", "\\"}
         -> Ok(StrV(SubSeq(text, 2, Len(text) - 1)))
      [] OTHER -> Raise("ValueError")

DefaultJson == <<"d", "e", "f", "a", "u", "l", "t">>

\* What the operator types at a JSON prompt; <<>> is the bare return key.
JsonTexts == {<<>>, <<"[", "]">>, <<"[">>, <<"\"", "d", "e", "f", "a", "u", "l", "t", "\"">>}

\* A text that does not decode taken as the value.
process_json_KeepsText(user_value, default) == [accepted |-> TRUE, value |-> StrV(user_value)]

\* One reading of click.prompt in prompt_json: the bare return key gives
\* 'default' back unprocessed, a text that decodes gives its value, and the
\* variable's default stands in for 'default' (lines 155-157); for a text
\* that does not decode process_json raises UsageError and click asks again.
process_json(user_value, default) ==
    IF user_value = <<>> THEN [accepted |-> TRUE, value |-> default]
    ELSE LET loaded == json_loads(user_value)
         IN  IF ~loaded.ok THEN [accepted |-> FALSE, value |-> StrV(user_value)]
             ELSE IF loaded.val = StrV(DefaultJson) THEN [accepted |-> TRUE, value |-> default]
             ELSE [accepted |-> TRUE, value |-> loaded.val]

prompt_json(variable, default) == {process_json(text, default) : text \in JsonTexts}

\* One of the choices, by its number.
prompt_choice(variable, default) == {variable.choices[k] : k \in 1..Len(variable.choices)}

PROMPTS(variable, default) ==
    CASE variable.var_type = "string" -> prompt_string(variable, default)
      [] variable.var_type = "boolean" -> prompt_boolean(variable, default)
      [] variable.var_type = "int" -> prompt_int(variable, default)
      [] variable.var_type = "float" -> prompt_float(variable, default)
      [] variable.var_type = "yes_no" -> prompt_yes_no(variable, default)

\* prompt(variable, variable.default) in prompt_variable: the values one call
\* can return.  prompt_choice raises ValueError (list.index) before it prompts
\* when the default is not one of the choices.
PromptRaises(variable) ==
    Len(variable.choices) > 0 /\ ~InChoices(variable.choices, variable.default)

PromptValues(variable) ==
    IF Len(variable.choices) > 0 THEN prompt_choice(variable, variable.default)
    ELSE PROMPTS(variable, variable.default)

\* One reading of the prompt: the value read, accepted unless click itself
\* asks again (the UsageError of process_json).
PromptTurns(variable) ==
    IF Len(variable.choices) = 0 /\ variable.var_type = "json"
    THEN prompt_json(variable, variable.default)
    ELSE {[accepted |-> TRUE, value |-> v] : v \in PromptValues(variable)}

\* ------------------------------------------------------------- the inputs

\* The most variables a template declares.
MaxVars == 3

\* The most candidates one prompt loop rejects.
MaxRejects == 2

LowerPlusPattern == <<"^", "[a-z]", "+", "$">>

GateYes ==
    [Declaration(NameA, "yes_no") EXCEPT !.has_default = TRUE, !.default = BoolV(TRUE),
                                         !.if_yes_skip_to = NameC, !.if_no_skip_to = NameZ]

GateNo ==
    [Declaration(NameA, "yes_no") EXCEPT !.has_default = TRUE, !.default = BoolV(FALSE),
                                         !.if_yes_skip_to = NameB, !.if_no_skip_to = NameA]

ValidatedString ==
    [Declaration(NameA, "string") EXCEPT !.has_default = TRUE, !.default = StrV(<<"a", "b">>),
                                         !.validation = LowerPlusPattern]

BooleanGate ==
    [Declaration(NameA, "boolean") EXCEPT !.has_default = TRUE, !.default = BoolV(TRUE),
                                          !.if_yes_skip_to = NameC]

SkipIfRef ==
    [Declaration(NameB, "string") EXCEPT !.has_default = TRUE, !.default = StrV(<<"{{a}}", "x">>),
                                         !.skip_if = <<"{{a}}">>]

DoIfInt ==
    [Declaration(NameB, "int") EXCEPT !.has_default = TRUE, !.default = StrV(<<"3">>),
                                      !.do_if = <<"{{a}}">>]

SkipAndDo ==
    [Declaration(NameB, "string") EXCEPT !.has_default = TRUE, !.default = StrV(<<"A", "B">>),
                                         !.skip_if = <<"{{a}}">>, !.do_if = <<"{{c}}">>,
                                         !.validation = LowerPlusPattern]

PlainString == Declaration(NameB, "string")

PlainYesNo ==
    [Declaration(NameC, "yes_no") EXCEPT !.has_default = TRUE, !.default = BoolV(FALSE)]

AlwaysSkipped ==
    [Declaration(NameC, "string") EXCEPT !.has_default = TRUE, !.default = StrV(<<"{{b}}">>),
                                         !.skip_if = TrueText]

PlainInt == [Declaration(NameC, "int") EXCEPT !.has_default = TRUE, !.default = IntV(3)]

PlainJson ==
    [Declaration(NameC, "json") EXCEPT !.has_default = TRUE, !.default = ListV(<<"x">>)]

PrivateString ==
    [Declaration(NameP, "string") EXCEPT !.has_default = TRUE, !.default = StrV(<<"{{a}}">>),
                                         !.prompt_user = TRUE, !.validation = LowerPlusPattern]

PrivateGate ==
    [Declaration(NameP, "yes_no") EXCEPT !.has_default = TRUE, !.default = BoolV(TRUE),
                                         !.if_yes_skip_to = NameC, !.skip_if = <<"{{a}}">>]

\* Declarations with a validation block of every kind.
Validating(flag_names, pattern, type) ==
    [Declaration(NameB, type) EXCEPT !.has_default = TRUE, !.default = StrV(<<"A", "B">>),
                                     !.validation = pattern, !.validation_flags = flag_names]

ValidatingDeclarations ==
    {Validating(<<"ignorecase", "dotall">>, <<"[a-z]", "+">>, "string"),
     Validating(<<"ascii", "mulitline">>, LowerPlusPattern, "string"),
     Validating(<<"multiline">>, LowerPlusPattern, "string"),
     Validating(<<"verbose", "debug", "bogus">>, LowerPlusPattern, "string"),
     Validating(<<"locale">>, LowerPlusPattern, "string"),
     Validating(<<>>, <<"(", "[a-z]">>, "string"),
     Validating(<<>>, LowerPlusPattern, "int")}

ChoiceDeclarations ==
    {[Declaration(NameC, "string") EXCEPT !.has_default = TRUE, !.default = StrV(<<"c">>),
                                          !.choices = <<StrV(<<"a">>), StrV(<<"b">>)>>],
     [Declaration(NameC, "string") EXCEPT !.has_default = TRUE, !.default = StrV(<<"a">>),
                                          !.choices = <<StrV(<<"a">>), StrV(<<"b">>)>>],
     [Declaration(NameC, "string") EXCEPT !.choices = <<StrV(<<"a">>), StrV(<<"b">>)>>]}

Declarations ==
    {GateYes, GateNo, ValidatedString, BooleanGate, SkipIfRef, DoIfInt, SkipAndDo, PlainString,
     PlainYesNo, AlwaysSkipped, PlainInt, PlainJson, PrivateString, PrivateGate}
    \cup ValidatingDeclarations \cup ChoiceDeclarations

UniqueNames(decls) == \A j, k \in 1..Len(decls) : j # k => decls[j].name # decls[k].name

\* The "variables" lists: up to MaxVars declarations, every name used once.
VariableLists ==
    UNION {{decls \in [1..n -> Declarations] : UniqueNames(decls)} : n \in 1..MaxVars}

\* The versions installed where load_context runs: cookiecutter's __version__
\* and the first word of sys.version.
InstalledCookiecutter == <<"2", ".", "0", ".", "0">>

InstalledPython == <<"3", ".", "8", ".", "0">>

\* The "requires" key of the document; <<>> is an absent requirement.
NoRequires == [cookiecutter |-> <<>>, python |-> <<>>]

SatisfiedRequires ==
    [cookiecutter |-> <<">", "=", "1", ".", "0", ",", " ", "<", "3">>,
     python |-> <<">", "=", "3", ".", "6">>]

CookiecutterTooOld == [cookiecutter |-> <<">", "2", ".", "0">>, python |-> <<>>]

PythonTooNew == [cookiecutter |-> <<"2">>, python |-> <<"<", "3">>]

\* The keys of the document beside its variables.
Options ==
    {[requires |-> NoRequires, extensions |-> NoneV, jinja2_env_vars |-> NoneV],
     [requires |-> SatisfiedRequires,
      extensions |-> ListV(<<"jinja2_time.TimeExtension">>),
      jinja2_env_vars |-> DictV(<<"lstrip_blocks">>)],
     [requires |-> CookiecutterTooOld, extensions |-> NoneV, jinja2_env_vars |-> NoneV],
     [requires |-> PythonTooNew,
      extensions |-> ListV(<<"jinja2_time.TimeExtension">>),
      jinja2_env_vars |-> DictV(<<"lstrip_blocks">>)]}

\* ---------------------------------------------------------------- state

VARIABLES
    json_object,            \* the input document: variables, requires, extensions,
                            \* jinja2_env_vars
    no_input,               \* load_context's no_input
    pc,                     \* "load", "walk", "prompt" (inside prompt_variable), "done", "raised"
    variables,              \* CookiecutterTemplate.variables, each default as rendered so far
    idx,                    \* the position of the for loop in variables
    context,                \* the OrderedDict being built
    skip_to_variable_name,  \* the pending jump target, NoName for None
    attempts,               \* per variable, the values the prompt boundary returned
    rendered,               \* the jinja_render calls made: <<position, field>>
    tested,                 \* the positions whose pattern was matched against a value
    outcome,                \* per variable, how its iteration ended
    setter,                 \* the position of the variable that last set the target
    warned,                 \* whether logger.warning was called
    err,                    \* the exception that ended the run: [kind, at]
    call                    \* a call of one function by itself: its arguments and results

vars ==
    <<json_object, no_input, pc, variables, idx, context, skip_to_variable_name,
      attempts, rendered, tested, outcome, setter, warned, err, call>>

NoError == [kind |-> "none", at |-> 0]

\* No function is called by itself.
NoCall == [fn |-> "none", tag |-> "", a |-> NoneV, b |-> NoneV, step |-> 0,
           first |-> Ok(NoneV), second |-> Ok(NoneV)]

Init ==
    /\ \E decls \in VariableLists, extra \in Options :
          json_object = [variables |-> decls, requires |-> extra.requires,
                         extensions |-> extra.extensions,
                         jinja2_env_vars |-> extra.jinja2_env_vars]
    /\ no_input \in BOOLEAN
    /\ pc = "load"
    /\ variables = <<>>
    /\ idx = 1
    /\ context = <<>>
    /\ skip_to_variable_name = NoName
    /\ attempts = [k \in 1..Len(json_object.variables) |-> <<>>]
    /\ rendered = {}
    /\ tested = {}
    /\ outcome = [k \in 1..Len(json_object.variables) |-> "none"]
    /\ setter = 0
    /\ warned = FALSE
    /\ err = NoError
    /\ call = NoCall

\* ------------------------------------------------- CookiecutterTemplate

\* One assert of lines 464-469: nothing for an absent requirement, the
\* AssertionError for one that does not hold, the exception of version.parse.
AssertRequirement(requirement, installed) ==
    IF requirement = <<>> THEN Ok(NoneV)
    ELSE LET holds == validate_requirement(requirement, installed)
         IN  IF ~holds.ok THEN Raise(holds.err)
             ELSE IF ~holds.val.b THEN Raise("AssertionError")
             ELSE Ok(NoneV)

\* The requirements never looked at.
CheckRequirements_Never(requires) == Ok(NoneV)

\* Lines 461-469.
CheckRequirements(requires) ==
    LET cookiecutter == AssertRequirement(requires.cookiecutter, InstalledCookiecutter)
    IN  IF ~cookiecutter.ok THEN cookiecutter
        ELSE AssertRequirement(requires.python, InstalledPython)

\* CookiecutterTemplate(**json_object): the requirements are asserted, then
\* every Variable is constructed, in order, before the walk; the first
\* exception ends the run (at 0 for the requirements).
LoadTemplate ==
    /\ pc = "load"
    /\ LET decls == json_object.variables
           required == CheckRequirements(json_object.requires)
           built == [k \in 1..Len(decls) |-> VariableInit(decls[k])]
           bad == {k \in 1..Len(decls) : ~built[k].ok}
       IN  IF ~required.ok
           THEN /\ variables' = variables
                /\ pc' = "raised"
                /\ err' = [kind |-> required.err, at |-> 0]
           ELSE IF bad = {}
           THEN /\ variables' = [k \in 1..Len(decls) |-> built[k].val]
                /\ pc' = "walk"
                /\ err' = err
           ELSE LET first == CHOOSE k \in bad : \A j \in bad : k <= j
                IN  /\ variables' = variables
                    /\ pc' = "raised"
                    /\ err' = [kind |-> built[first].err, at |-> first]
    /\ UNCHANGED <<json_object, no_input, idx, context, skip_to_variable_name,
                   attempts, rendered, tested, outcome, setter, warned, call>>

\* ------------------------------------------------------------ load_context

\* The pending target forgotten: no variable is ever jumped over.
JumpedOver_Never(variable, skip_to) == FALSE

\* Line 551: a target is pending and this is not the variable it names.
JumpedOver(variable, skip_to) == skip_to # NoName /\ variable.name # skip_to

\* An iterator that goes to the variable the target names, wherever it is.
NextVariable_SeeksTarget(vs, i, target) ==
    IF target # NoName /\ \E j \in 1..Len(vs) : vs[j].name = target
    THEN CHOOSE j \in 1..Len(vs) : vs[j].name = target
    ELSE i + 1

\* CookiecutterTemplate.__iter__: the variable after position i, whatever the
\* target is.
NextVariable(vs, i, target) == i + 1

\* The target left pending while skip_if and do_if are checked.
ClearedTarget_Kept(skip_to) == skip_to

\* Line 553: the target is cleared once the variable is not jumped over.
ClearedTarget(skip_to) == NoName

\* The rendering compared with 'true' instead of 'True'.
SkipIfHolds_Lower(variable, ctx) ==
    variable.skip_if # <<>> /\ jinja_render(variable.skip_if, ctx) = <<"t", "r", "u", "e">>

\* Line 555.
SkipIfHolds(variable, ctx) ==
    variable.skip_if # <<>> /\ jinja_render(variable.skip_if, ctx) = TrueText

\* do_if never read.
DoIfFails_Never(variable, ctx) == FALSE

\* do_if read only when the variable has no skip_if.
DoIfFails_OnlyWithoutSkipIf(variable, ctx) ==
    variable.skip_if = <<>> /\ variable.do_if # <<>>
    /\ jinja_render(variable.do_if, ctx) = FalseText

\* Line 558.
DoIfFails(variable, ctx) ==
    variable.do_if # <<>> /\ jinja_render(variable.do_if, ctx) = FalseText

\* Lines 562-563: the default after the rendering of a str default.
RenderedDefault(variable, ctx) ==
    IF variable.default.t = "str" THEN StrV(jinja_render(variable.default.s, ctx))
    ELSE variable.default

\* no_input ignored.
TakesDefault_IgnoresNoInput(variable, noInput) == ~variable.prompt_user

\* Both conditions required instead of either.
TakesDefault_Both(variable, noInput) == noInput /\ ~variable.prompt_user

\* Line 566.
TakesDefault(variable, noInput) == noInput \/ ~variable.prompt_user

\* The two targets exchanged.
NextSkipTo_Swapped(variable, stored) ==
    IF variable.if_no_skip_to # NoName /\ stored = BoolV(TRUE) THEN variable.if_no_skip_to
    ELSE IF variable.if_yes_skip_to # NoName /\ stored = BoolV(FALSE) THEN variable.if_yes_skip_to
    ELSE NoName

\* Lines 580-584: the target after the value is stored (None when neither
\* test holds: line 553 has cleared it).
NextSkipTo(variable, stored) ==
    IF variable.if_no_skip_to # NoName /\ stored = BoolV(FALSE) THEN variable.if_no_skip_to
    ELSE IF variable.if_yes_skip_to # NoName /\ stored = BoolV(TRUE) THEN variable.if_yes_skip_to
    ELSE NoName

\* Lines 571-584 for the variable at idx whose raw value is value; vs is the
\* variable list with its default rendered.
StoreValue(vs, value) ==
    LET variable == vs[idx]
        result == DESERIALIZERS(variable.var_type, value)
    IN  /\ variables' = vs
        /\ IF result.ok
           THEN LET target == NextSkipTo(variable, result.val)
                IN  /\ context' = SetItem(context, variable.name, result.val)
                    /\ skip_to_variable_name' = target
                    /\ setter' = IF target # NoName THEN idx ELSE setter
                    /\ outcome' = [outcome EXCEPT ![idx] = "stored"]
                    /\ idx' = NextVariable(vs, idx, target)
                    /\ pc' = "walk"
                    /\ err' = err
           ELSE /\ context' = context
                /\ skip_to_variable_name' = NoName
                /\ setter' = setter
                /\ outcome' = [outcome EXCEPT ![idx] = "raised"]
                /\ idx' = idx
                /\ pc' = "raised"
                /\ err' = [kind |-> result.err, at |-> idx]

\* The calls of jinja_render one iteration makes before it leaves the checks.
RenderCalls(variable, ctx) ==
    (IF variable.skip_if # <<>> THEN {<<idx, "skip_if">>} ELSE {})
    \cup (IF ~SkipIfHolds(variable, ctx) /\ variable.do_if # <<>> THEN {<<idx, "do_if">>} ELSE {})
    \cup (IF ~SkipIfHolds(variable, ctx) /\ ~DoIfFails(variable, ctx) /\ variable.default.t = "str"
          THEN {<<idx, "default">>} ELSE {})

\* One iteration of the for loop, up to the stored value or to the first call
\* of the prompt boundary.
VisitVariable ==
    /\ pc = "walk"
    /\ idx <= Len(variables)
    /\ LET variable == variables[idx]
       IN  IF JumpedOver(variable, skip_to_variable_name)
           THEN /\ outcome' = [outcome EXCEPT ![idx] = "jumped"]
                /\ idx' = NextVariable(variables, idx, skip_to_variable_name)
                /\ UNCHANGED <<pc, variables, context, skip_to_variable_name, rendered,
                               setter, err>>
           ELSE /\ rendered' = rendered \cup RenderCalls(variable, context)
                /\ IF SkipIfHolds(variable, context) \/ DoIfFails(variable, context)
                   THEN /\ outcome' = [outcome EXCEPT ![idx] =
                                          IF SkipIfHolds(variable, context) THEN "skip_if"
                                          ELSE "do_if"]
                        /\ idx' = NextVariable(variables, idx, NoName)
                        /\ skip_to_variable_name' = ClearedTarget(skip_to_variable_name)
                        /\ UNCHANGED <<pc, variables, context, setter, err>>
                   ELSE LET vs == [variables EXCEPT ![idx].default =
                                      RenderedDefault(variable, context)]
                        IN  IF TakesDefault(variable, no_input)
                            THEN StoreValue(vs, vs[idx].default)
                            ELSE /\ variables' = vs
                                 /\ pc' = "prompt"
                                 /\ skip_to_variable_name' = ClearedTarget(skip_to_variable_name)
                                 /\ outcome' = [outcome EXCEPT ![idx] = "prompting"]
                                 /\ UNCHANGED <<idx, context, setter, err>>
    /\ UNCHANGED <<json_object, no_input, attempts, tested, warned, call>>

\* The test of line 511 inverted.
ValidateMatch_Inverted(variable, value) ==
    IF value.t # "str" THEN Raise("TypeError")
    ELSE Ok(BoolV(~MatchAt(variable.validate, 1, value.s, 1)))

\* Line 511: variable.validate.match(value).
ValidateMatch(variable, value) == re_match(variable.validate, value)

\* One reading of the prompt in the while loop of prompt_variable: a text
\* click refuses (UsageError) and a value the pattern rejects leave the loop
\* where it is.
PromptVariable ==
    /\ pc = "prompt"
    /\ LET variable == variables[idx]
       IN  IF PromptRaises(variable)
           THEN /\ pc' = "raised"
                /\ err' = [kind |-> "ValueError", at |-> idx]
                /\ outcome' = [outcome EXCEPT ![idx] = "raised"]
                /\ UNCHANGED <<variables, idx, context, skip_to_variable_name, attempts,
                               tested, setter>>
           ELSE \E turn \in PromptTurns(variable) :
                  /\ attempts' = [attempts EXCEPT ![idx] = Append(@, turn.value)]
                  /\ IF ~turn.accepted
                     THEN /\ Len(attempts[idx]) < MaxRejects
                          /\ UNCHANGED <<pc, variables, idx, context, skip_to_variable_name,
                                         tested, outcome, setter, err>>
                     ELSE IF variable.validate.on
                          THEN /\ tested' = tested \cup {idx}
                               /\ LET m == ValidateMatch(variable, turn.value)
                                  IN  IF ~m.ok
                                      THEN /\ pc' = "raised"
                                           /\ err' = [kind |-> m.err, at |-> idx]
                                           /\ outcome' = [outcome EXCEPT ![idx] = "raised"]
                                           /\ UNCHANGED <<variables, idx, context,
                                                          skip_to_variable_name, setter>>
                                      ELSE IF m.val.b
                                           THEN StoreValue(variables, turn.value)
                                           ELSE /\ Len(attempts[idx]) < MaxRejects
                                                /\ UNCHANGED <<pc, variables, idx, context,
                                                               skip_to_variable_name,
                                                               outcome, setter, err>>
                          ELSE /\ tested' = tested
                               /\ StoreValue(variables, turn.value)
    /\ UNCHANGED <<json_object, no_input, rendered, warned, call>>

\* A key copied only when the document gives it.
WithPassthroughs_OnlyGiven(ctx, document) ==
    LET first == IF document.extensions = NoneV THEN ctx
                 ELSE SetItem(ctx, EXTENSIONS_KEY, document.extensions)
    IN  IF document.jinja2_env_vars = NoneV THEN first
        ELSE SetItem(first, JINJA2_ENV_VARS_KEY, document.jinja2_env_vars)

\* Lines 592-593: json_object.get(key) is None for a key the document lacks.
WithPassthroughs(ctx, document) ==
    SetItem(SetItem(ctx, EXTENSIONS_KEY, document.extensions),
            JINJA2_ENV_VARS_KEY, document.jinja2_env_vars)

\* Lines 586-595: the list is exhausted.
Finish ==
    /\ pc = "walk"
    /\ idx > Len(variables)
    /\ warned' = (skip_to_variable_name # NoName)
    /\ context' = WithPassthroughs(context, json_object)
    /\ pc' = "done"
    /\ UNCHANGED <<json_object, no_input, variables, idx, skip_to_variable_name, attempts,
                   rendered, tested, outcome, setter, err, call>>

Next == LoadTemplate \/ VisitVariable \/ PromptVariable \/ Finish

Spec == Init /\ [][Next]_vars

\* A turn of the prompt loop that leaves it: the operator entered a value
\* that was accepted, or the turn raised.
PromptLeaves == PromptVariable /\ pc' # "prompt"

\* The interpreter runs the for loop on, and every prompt loop is given, in
\* the end, a value it accepts.
LiveSpec ==
    /\ Spec
    /\ WF_vars(VisitVariable)
    /\ WF_vars(PromptLeaves)
    /\ WF_vars(Finish)

\* ------------------------------------------- the functions by themselves
\* validate_requirement and the deserializers called on arguments of their
\* own, outside load_context, which stays where it is.

\* The most clauses a requirement has.
MaxClauses == 2

Comparators == {<<>>, <<"=", "=">>, <<"<">>, <<"<", "=">>, <<">">>, <<">", "=">>, <<"!", "=">>}

ReferenceVersions ==
    {<<"1", ".", "0">>, <<"2", ".", "0">>, <<"1", ".", "5", ".", "0">>,
     <<"1", ".", "0", ".", "0">>}

Clauses == {c \o r : c \in Comparators, r \in ReferenceVersions} \cup {<<">", "=", " ", "1">>}

\* The clauses joined by a comma, with a blank after it behind a short clause.
RECURSIVE JoinClauses(_)
JoinClauses(clauses) ==
    IF Len(clauses) = 1 THEN clauses[1]
    ELSE clauses[1] \o (IF Len(clauses[1]) > 3 THEN <<",">> ELSE <<",", " ">>)
         \o JoinClauses(Tail(clauses))

Requirements ==
    {<<>>} \cup UNION {{JoinClauses(cs) : cs \in [1..n -> Clauses]} : n \in 1..MaxClauses}

PackageVersions ==
    {<<"1", ".", "5", ".", "0">>, <<"2", ".", "0", ".", "0">>, <<"1", ".", "0", ".", "0">>,
     <<"1", ".", "1", "0">>, <<"0", ".", "9">>, <<"2">>}

UuidText ==
    <<"1", "2", "3", "4", "5", "6", "7", "8", "-", "1", "2", "3", "4", "-", "5", "6", "7", "8",
      "-", "9", "A", "B", "C", "-", "D", "E", "F", "0", "a", "b", "c", "d", "e", "f", "1", "2">>

\* The values handed to a deserializer.
RawValues ==
    {NoneV, BoolV(TRUE), BoolV(FALSE), IntV(0), IntV(3), IntV(-2), FloatV(3), FloatV(0), NaNV,
     StrV(<<>>), StrV(<<"3">>), StrV(<<"-", "2">>), StrV(<<"3", ".", "0">>), StrV(<<"a", "b">>),
     StrV(<<"N", "a", "N">>), StrV(TrueText), StrV(UuidText),
     StrV(SelectSeq(UuidText, LAMBDA c : c # "-")),
     ListV(<<>>), ListV(<<"x", "y">>), DictV(<<>>)}

TypeTags == {"string", "boolean", "int", "float", "uuid", "json", "yes_no"}

\* load_context at rest: no document is being processed.
AtRest ==
    /\ json_object = [variables |-> <<>>, requires |-> NoRequires, extensions |-> NoneV,
                      jinja2_env_vars |-> NoneV]
    /\ no_input = FALSE
    /\ pc = "rest"
    /\ variables = <<>>
    /\ idx = 1
    /\ context = <<>>
    /\ skip_to_variable_name = NoName
    /\ attempts = <<>>
    /\ rendered = {}
    /\ tested = {}
    /\ outcome = <<>>
    /\ setter = 0
    /\ warned = FALSE
    /\ err = NoError

CallInit ==
    /\ AtRest
    /\ \/ \E req \in Requirements, pkg \in PackageVersions :
             call = [NoCall EXCEPT !.fn = "validate_requirement", !.a = StrV(req),
                                   !.b = StrV(pkg)]
       \/ \E tag \in TypeTags, value \in RawValues :
             call = [NoCall EXCEPT !.fn = "deserialize", !.tag = tag, !.a = value]

\* validate_requirement(req_long_str, pkg_version)
CallValidateRequirement ==
    /\ call.fn = "validate_requirement"
    /\ call.step = 0
    /\ call' = [call EXCEPT !.step = 1, !.first = validate_requirement(call.a.s, call.b.s)]
    /\ UNCHANGED <<json_object, no_input, pc, variables, idx, context, skip_to_variable_name,
                   attempts, rendered, tested, outcome, setter, warned, err>>

\* DESERIALIZERS[tag](value)
CallDeserialize ==
    /\ call.fn = "deserialize"
    /\ call.step = 0
    /\ call' = [call EXCEPT !.step = 1, !.first = DESERIALIZERS(call.tag, call.a)]
    /\ UNCHANGED <<json_object, no_input, pc, variables, idx, context, skip_to_variable_name,
                   attempts, rendered, tested, outcome, setter, warned, err>>

\* DESERIALIZERS[tag] applied to the value it returned.
CallDeserializeAgain ==
    /\ call.fn = "deserialize"
    /\ call.step = 1
    /\ call.first.ok
    /\ call' = [call EXCEPT !.step = 2, !.second = DESERIALIZERS(call.tag, call.first.val)]
    /\ UNCHANGED <<json_object, no_input, pc, variables, idx, context, skip_to_variable_name,
                   attempts, rendered, tested, outcome, setter, warned, err>>

CallNext == CallValidateRequirement \/ CallDeserialize \/ CallDeserializeAgain

CallSpec == CallInit /\ [][CallNext]_vars

\* ---------------------------------------------------------- the claims

Positions == 1..Len(variables)

\* The variable at position i has been visited by the for loop.
Visited(i) == i < idx \/ (i = idx /\ pc \in {"prompt", "raised"})

\* The value stored under the name of the variable at position i.
ValueOf(i) == Lookup(context, variables[i].name)

\* The context as it was when the walk reached position i: the entries of the
\* variables declared before it.
ContextBefore(i) ==
    SelectSeq(context, LAMBDA e : \E j \in 1..(i - 1) : variables[j].name = e.name)

\* No call of jinja_render and no call of the prompt boundary was made for
\* the variable at position i, and the context holds no entry under its name.
Untouched(i) ==
    /\ ~HasKey(context, variables[i].name)
    /\ attempts[i] = <<>>
    /\ \A f \in {"skip_if", "do_if", "default"} : <<i, f>> \notin rendered
    /\ ~(pc = "prompt" /\ idx = i)

\* The variable at position i was omitted: no entry, no prompt, and its
\* default was not rendered.
Omitted(i) ==
    /\ ~HasKey(context, variables[i].name)
    /\ attempts[i] = <<>>
    /\ <<i, "default">> \notin rendered
    /\ variables[i].default = json_object.variables[i].default

\* The yes_no variable at v stored True and names as its if_yes_skip_to the
\* variable declared at x, after it.
YesJump(v, x) ==
    /\ v < x
    /\ variables[v].var_type = "yes_no"
    /\ variables[v].if_yes_skip_to = variables[x].name
    /\ outcome[v] = "stored"
    /\ ValueOf(v) = BoolV(TRUE)

\* C1: when a yes_no variable V with if_yes_skip_to = X, X declared after V,
\* has resolved to True, no variable declared strictly between V and X gets a
\* context entry, a rendering or a prompt, and X is not jumped over: once the
\* walk has visited X its skip_if was rendered if it has one, and X ended
\* omitted by its own skip_if / do_if, or at the prompt, or stored, or raising.
C1_YesJumpSkipsBetween ==
    \A v \in Positions : \A x \in Positions :
        YesJump(v, x) =>
            /\ \A m \in (v + 1)..(x - 1) : Untouched(m) /\ outcome[m] \in {"none", "jumped"}
            /\ Visited(x) =>
                  /\ outcome[x] \in {"skip_if", "do_if", "prompting", "stored", "raised"}
                  /\ variables[x].skip_if # <<>> => <<x, "skip_if">> \in rendered
                  /\ outcome[x] = "stored" <=> HasKey(context, variables[x].name)

C1_Witness ==
    /\ pc = "done"
    /\ \E v \in Positions : \E x \in Positions :
          YesJump(v, x) /\ x = v + 2 /\ outcome[v + 1] = "jumped" /\ outcome[x] = "stored"

\* C2: a variable whose skip_if renders to 'True' against the context the walk
\* had built when it reached the variable has no entry in the context, at the
\* return and at every moment before it.
C2_SkipIfTrueAbsent ==
    \A i \in Positions :
        ( /\ Visited(i)
          /\ variables[i].skip_if # <<>>
          /\ jinja_render(variables[i].skip_if, ContextBefore(i)) = TrueText )
        => ~HasKey(context, variables[i].name)

\* A yes_no variable with a default, reached with no target pending, is absent
\* from the returned context because its skip_if rendered 'True'.
C2_Witness ==
    /\ pc = "done"
    /\ \E i \in Positions :
          /\ variables[i].var_type = "yes_no"
          /\ variables[i].default = BoolV(TRUE)
          /\ outcome[i] = "skip_if"
          /\ jinja_render(variables[i].skip_if, ContextBefore(i)) = TrueText
          /\ ~HasKey(context, variables[i].name)

NoControls(decls) ==
    \A k \in 1..Len(decls) :
        /\ decls[k].skip_if = <<>>
        /\ decls[k].do_if = <<>>
        /\ decls[k].if_yes_skip_to = NoName
        /\ decls[k].if_no_skip_to = NoName

DeclaredNames == [k \in 1..Len(json_object.variables) |-> json_object.variables[k].name]

\* C3: for a template in which no variable declares skip_if, do_if,
\* if_yes_skip_to or if_no_skip_to, the keys of the returned context are the
\* declared names in declaration order, followed by the two passthrough keys.
C3_KeyOrderIsDeclarationOrder ==
    (pc = "done" /\ NoControls(json_object.variables))
    => Keys(context) = DeclaredNames \o <<EXTENSIONS_KEY, JINJA2_ENV_VARS_KEY>>

C3_Witness ==
    /\ pc = "done"
    /\ NoControls(json_object.variables)
    /\ Len(json_object.variables) >= 3
    /\ ~no_input
    /\ Keys(context) = DeclaredNames \o <<EXTENSIONS_KEY, JINJA2_ENV_VARS_KEY>>

\* C4 as claimed: with no_input the prompt boundary is never called and every
\* stored value equals (Python's ==) the variable's rendered default.
C4_Claimed_StoredEqualsDefault ==
    no_input =>
        \A i \in Positions :
            /\ attempts[i] = <<>>
            /\ outcome[i] = "stored" => PyEq(ValueOf(i), variables[i].default)

\* C4, amended: with no_input the prompt boundary is never called and every
\* stored value is the deserializer of the variable's type applied to its
\* rendered default.
C4_StoredIsDeserializedDefault ==
    no_input =>
        /\ pc # "prompt"
        /\ \A i \in Positions :
              /\ attempts[i] = <<>>
              /\ outcome[i] = "stored" =>
                    /\ DESERIALIZERS(variables[i].var_type, variables[i].default).ok
                    /\ ValueOf(i) = DESERIALIZERS(variables[i].var_type, variables[i].default).val

\* With no_input an int variable whose default is the str '3' is stored as 3.
C4_Witness ==
    /\ pc = "done"
    /\ no_input
    /\ \E i \in Positions :
          /\ outcome[i] = "stored"
          /\ variables[i].var_type = "int"
          /\ variables[i].default = StrV(<<"3">>)
          /\ ValueOf(i) = IntV(3)

\* The value matches the compiled pattern of the variable at position i.
Matches(i, value) == value.t = "str" /\ MatchAt(variables[i].validate, 1, value.s, 1)

\* C5: in the prompt loop of a string variable with a validation pattern every
\* value the prompt boundary returned before the last one fails the pattern;
\* while the loop is running the last one fails it too; once the variable is
\* stored the last one matches and is the stored value, so the boundary was
\* called once per rejected value plus once.
C5_PromptLoopsUntilMatch ==
    \A i \in Positions :
        (variables[i].validate.on /\ attempts[i] # <<>>) =>
            /\ variables[i].var_type = "string"
            /\ \A k \in 1..(Len(attempts[i]) - 1) : ~Matches(i, attempts[i][k])
            /\ outcome[i] = "prompting" => ~Matches(i, attempts[i][Len(attempts[i])])
            /\ outcome[i] = "stored" =>
                  /\ Matches(i, attempts[i][Len(attempts[i])])
                  /\ ValueOf(i) = attempts[i][Len(attempts[i])]
                  /\ Matches(i, ValueOf(i))
            /\ outcome[i] \in {"prompting", "stored"}

\* 'AB' was rejected by ^[a-z]+$, then 'ab' was accepted and stored: two calls.
C5_Witness ==
    /\ pc = "done"
    /\ \E i \in Positions :
          /\ variables[i].validate.on
          /\ outcome[i] = "stored"
          /\ attempts[i] = <<StrV(<<"A", "B">>), StrV(<<"a", "b">>)>>
          /\ ValueOf(i) = StrV(<<"a", "b">>)

\* C6: a value taken from the default (no_input, or prompt_user false) is
\* never matched against the validation pattern and never prompted for; it is
\* stored as the deserialized default whether or not the default matches.
C6_DefaultNeverValidated ==
    \A i \in Positions :
        (Visited(i) /\ outcome[i] # "jumped" /\ (no_input \/ ~variables[i].prompt_user)) =>
            /\ i \notin tested
            /\ attempts[i] = <<>>
            /\ ~(pc = "prompt" /\ idx = i)
            /\ outcome[i] = "stored" =>
                  ValueOf(i) = DESERIALIZERS(variables[i].var_type, variables[i].default).val

\* A default that does not match its pattern was stored, with no_input in one
\* variable and with prompt_user false in an interactive run in another.
C6_Witness ==
    /\ pc = "done"
    /\ \E i \in Positions :
          /\ variables[i].validate.on
          /\ outcome[i] = "stored"
          /\ ~Matches(i, variables[i].default)
          /\ ValueOf(i) = variables[i].default
          /\ ~no_input
          /\ ~variables[i].prompt_user

\* The target the variable at position i sets with the value it stored.
TargetSetBy(i) ==
    IF ValueOf(i) = BoolV(TRUE) THEN variables[i].if_yes_skip_to
    ELSE IF ValueOf(i) = BoolV(FALSE) THEN variables[i].if_no_skip_to
    ELSE NoName

\* The last variable that stored a value set a target no later variable has.
UnreachedTarget ==
    \E v \in Positions :
        /\ outcome[v] = "stored"
        /\ \A j \in (v + 1)..Len(variables) : outcome[j] # "stored"
        /\ TargetSetBy(v) # NoName
        /\ \A j \in (v + 1)..Len(variables) : variables[j].name # TargetSetBy(v)

\* C7: load_context returns with a warning exactly when the target set by the
\* last stored variable names no later variable; the returned context then
\* holds the entries stored up to that variable and none of a later one.
C7_WarningIffTargetUnreached ==
    pc = "done" =>
        /\ warned <=> (skip_to_variable_name # NoName)
        /\ warned <=> UnreachedTarget
        /\ warned =>
              /\ setter \in Positions
              /\ outcome[setter] = "stored"
              /\ skip_to_variable_name = TargetSetBy(setter)
              /\ \A j \in Positions :
                    HasKey(context, variables[j].name) <=> (outcome[j] = "stored" /\ j <= setter)
              /\ \A j \in (setter + 1)..Len(variables) : outcome[j] = "jumped" /\ Untouched(j)

\* A warning after a target that names the setting variable itself, with a
\* later variable left out.
C7_Witness ==
    /\ pc = "done"
    /\ warned
    /\ setter < Len(variables)
    /\ skip_to_variable_name = variables[setter].name

\* C8: a variable whose name starts with an underscore has prompt_user false
\* after construction, the prompt boundary is never called for it, and the
\* value stored for it is the deserialized (rendered) default.
C8_PrivateNeverPrompted ==
    \A i \in Positions :
        StartsWith(variables[i].name, "_") =>
            /\ ~variables[i].prompt_user
            /\ attempts[i] = <<>>
            /\ ~(pc = "prompt" /\ idx = i)
            /\ outcome[i] = "stored" =>
                  ValueOf(i) = DESERIALIZERS(variables[i].var_type, variables[i].default).val

\* An interactive run stored a private variable declared with prompt_user true.
C8_Witness ==
    /\ pc = "done"
    /\ ~no_input
    /\ \E i \in Positions :
          /\ StartsWith(variables[i].name, "_")
          /\ json_object.variables[i].prompt_user
          /\ outcome[i] = "stored"
          /\ \E j \in Positions : attempts[j] # <<>>

\* C9: a variable with both skip_if and do_if, reached when no other target is
\* pending, is omitted by skip_if when skip_if renders 'True', is omitted by
\* do_if when skip_if does not render 'True' and do_if renders 'False', and is
\* processed otherwise; each is rendered against the context built before it,
\* do_if only when skip_if did not omit the variable.
C9_SkipIfAndDoIfBothApply ==
    \A i \in Positions :
        ( /\ Visited(i)
          /\ outcome[i] # "jumped"
          /\ variables[i].skip_if # <<>>
          /\ variables[i].do_if # <<>> ) =>
            LET skip == jinja_render(variables[i].skip_if, ContextBefore(i)) = TrueText
                dont == jinja_render(variables[i].do_if, ContextBefore(i)) = FalseText
            IN  /\ skip => outcome[i] = "skip_if"
                /\ (~skip /\ dont) => outcome[i] = "do_if"
                /\ (~skip /\ ~dont) => outcome[i] \in {"prompting", "stored", "raised"}
                /\ outcome[i] \in {"skip_if", "do_if"} => Omitted(i)
                /\ <<i, "skip_if">> \in rendered
                /\ <<i, "do_if">> \in rendered <=> ~skip

\* skip_if did not render 'True', do_if rendered 'False': omitted by do_if.
C9_Witness ==
    /\ pc = "done"
    /\ \E i \in Positions :
          /\ variables[i].skip_if # <<>>
          /\ variables[i].do_if # <<>>
          /\ outcome[i] = "do_if"
          /\ jinja_render(variables[i].skip_if, ContextBefore(i)) # TrueText
          /\ jinja_render(variables[i].do_if, ContextBefore(i)) = FalseText
          /\ ~HasKey(context, variables[i].name)

\* The flag names the specification lists as supported.
SupportedFlagNames == {"ascii", "debug", "ignorecase", "locale", "multiline", "dotall", "verbose"}

\* The construction of the declaration at position k raised.
LoadFailedAt(k) == pc = "raised" /\ variables = <<>> /\ err.at = k

\* The construction reached the declaration at position k: the requirements
\* (position 0) and the declarations before it raised nothing.
LoadReached(k) == pc # "load" /\ \A j \in 0..(k - 1) : ~LoadFailedAt(j)

\* A string declaration with a pattern that compiles and nothing else wrong.
SoundValidation(d) ==
    /\ d.type = "string"
    /\ d.validation # <<>>
    /\ re_compile(d.validation, {}).ok
    /\ ~ChoicesMismatch(d)

FlagNamesOf(d) == {d.validation_flags[k] : k \in 1..Len(d.validation_flags)}

\* C10 as claimed: a string Variable with a compilable pattern is constructed
\* whenever its validation_flags are among ascii, debug, ignorecase, locale,
\* multiline, dotall, verbose, and is rejected with the ValueError of the
\* validation setup when one of them is any other name.
C10_Claimed_SupportedFlagsConstruct ==
    \A k \in 1..Len(json_object.variables) :
        LET d == json_object.variables[k]
        IN  (LoadReached(k) /\ SoundValidation(d)) =>
                /\ FlagNamesOf(d) \subseteq SupportedFlagNames => ~LoadFailedAt(k)
                /\ ~(FlagNamesOf(d) \subseteq SupportedFlagNames) =>
                      (LoadFailedAt(k) /\ err.kind = "ValueError:regex")

\* The declaration at position k is one the choices check of line 373 rejects:
\* "default" is a key of the declaration, choices is not empty, and no choice
\* equals the default.
DefaultOutsideChoices(d) ==
    /\ d.has_default
    /\ d.choices # <<>>
    /\ \A j \in 1..Len(d.choices) : ~PyEq(d.choices[j], d.default)

\* C11: the construction of a Variable raises the choice-mismatch ValueError
\* exactly when a default is given explicitly, choices is not empty and the
\* default is none of the choices; with empty choices, without an explicit
\* default, or with a default among the choices, that error is not raised.
C11_ChoiceMismatchExactly ==
    \A k \in 1..Len(json_object.variables) :
        LoadReached(k) =>
            ((LoadFailedAt(k) /\ err.kind = "ValueError:choices")
                <=> DefaultOutsideChoices(json_object.variables[k]))

\* A template whose choice variable has no explicit default, None being none
\* of its choices, was constructed.
C11_Witness ==
    /\ pc = "walk"
    /\ \E k \in Positions :
          /\ variables[k].choices # <<>>
          /\ ~json_object.variables[k].has_default
          /\ ~InChoices(variables[k].choices, variables[k].default)

\* A requirement of the document is given and does not hold for the installed
\* version.
UnsatisfiedRequirement(requires) ==
    \/ requires.cookiecutter # <<>>
          /\ validate_requirement(requires.cookiecutter, InstalledCookiecutter) # Ok(BoolV(TRUE))
    \/ requires.python # <<>>
          /\ validate_requirement(requires.python, InstalledPython) # Ok(BoolV(TRUE))

\* A declaration with a fatal condition: a default outside its choices, or a
\* validation with a flag name REGEX_COMPILE_FLAGS lacks, with flags or a
\* pattern re.compile refuses, or on a type other than string.
FatalDeclaration(d) ==
    \/ DefaultOutsideChoices(d)
    \/ /\ d.validation # <<>>
       /\ \/ ~(FlagNamesOf(d) \subseteq DOMAIN REGEX_COMPILE_FLAGS)
          \/ "locale" \in FlagNamesOf(d)
          \/ ~re_compile(d.validation, {}).ok
          \/ d.type # "string"

\* The document has a load-time fatal condition.
FatalDocument ==
    \/ UnsatisfiedRequirement(json_object.requires)
    \/ \E k \in 1..Len(json_object.variables) : FatalDeclaration(json_object.variables[k])

\* Nothing of the walk has happened: no rendering, no prompt, no entry.
NothingResolved ==
    /\ variables = <<>>
    /\ idx = 1
    /\ context = <<>>
    /\ rendered = {}
    /\ tested = {}
    /\ \A k \in 1..Len(json_object.variables) : attempts[k] = <<>> /\ outcome[k] = "none"
    /\ skip_to_variable_name = NoName
    /\ ~warned

\* C12: for a document with an unsatisfied cookiecutter / python requirement
\* or with a fatal condition in a variable at any position, the construction
\* of the template raises and the walk never starts; until the template is
\* constructed, and when its construction has raised, no expression was
\* rendered, no prompt issued and no context entry stored.
C12_LoadFailureBeforeWalk ==
    /\ [](pc = "load" => NothingResolved)
    /\ []((pc = "raised" /\ variables = <<>>) =>
             (NothingResolved /\ err.kind # "none" /\ err.at \in 0..Len(json_object.variables)))
    /\ [][ (pc = "load" /\ FatalDocument) => (pc' = "raised" /\ variables' = <<>>) ]_vars
    /\ [][ pc # "load" => pc' # "load" ]_vars

\* An interactive run raised at the last of three declarations, the first of
\* which has a default to render and the second a skip_if.
C12_Witness ==
    /\ pc = "raised"
    /\ ~no_input
    /\ Len(json_object.variables) = 3
    /\ err.at = 3
    /\ json_object.variables[1].default.t = "str"
    /\ json_object.variables[2].skip_if # <<>>
    /\ context = <<>>
    /\ rendered = {}

\* The comparator a clause begins with: two characters first, then one; <<>>
\* when it begins with none.
LeadingComparator(clause) ==
    IF SliceTo(clause, 2) \in {<<"=", "=">>, <<"<", "=">>, <<">", "=">>} THEN SliceTo(clause, 2)
    ELSE IF SliceTo(clause, 1) \in {<<"<">>, <<">">>} THEN SliceTo(clause, 1)
    ELSE <<>>

ReferenceOf(clause) == SliceFrom(clause, Len(LeadingComparator(clause)))

\* The text is a dotted decimal version, blanks around it aside.
IsVersionText(text) ==
    LET parts == PySplit(PyStrip(text), ".")
    IN  \A k \in 1..Len(parts) : parts[k] # <<>> /\ \A j \in 1..Len(parts[k]) : parts[k][j] \in DigitChars

\* Component k of the version, 0 past its last one.
ComponentOf(text, k) ==
    LET parts == PySplit(PyStrip(text), ".")
    IN  IF k <= Len(parts) THEN DigitsValue(parts[k]) ELSE 0

\* Version precedence: -1, 0 or 1 as v comes before, with or after w.
Precedence(v, w) ==
    LET n == Len(v) + Len(w)
        differ == {k \in 1..n : ComponentOf(v, k) # ComponentOf(w, k)}
    IN  IF differ = {} THEN 0
        ELSE LET k == CHOOSE d \in differ : \A e \in differ : d <= e
             IN  IF ComponentOf(v, k) < ComponentOf(w, k) THEN -1 ELSE 1

\* The clause holds for the version.
ClauseHolds(clause, version) ==
    /\ IsVersionText(ReferenceOf(clause))
    /\ IsVersionText(version)
    /\ LET order == Precedence(version, ReferenceOf(clause))
           comparator == LeadingComparator(clause)
       IN  CASE comparator \in {<<>>, <<"=", "=">>} -> order = 0
             [] comparator = <<"<">> -> order = -1
             [] comparator = <<"<", "=">> -> order \in {-1, 0}
             [] comparator = <<">">> -> order = 1
             [] comparator = <<">", "=">> -> order \in {0, 1}

ClausesOf(requirement) ==
    LET parts == PySplit(requirement, ",") IN [k \in 1..Len(parts) |-> PyStrip(parts[k])]

Text_GE10_LT20 == <<">", "=", "1", ".", "0", ",", "<", "2", ".", "0">>

Text_EQ100 == <<"=", "=", "1", ".", "0", ".", "0">>

\* C13: validate_requirement(req, v), when it returns, returns True exactly
\* when every comma-separated clause of req holds for v, the comparator of a
\* clause being its leading ==, <=, >= or else its leading < or >, == when it
\* has none, and the rest its reference version, compared by version
\* precedence; it returns whenever every reference is a version; and
\* (">=1.0,<2.0", "1.5.0") is True, (">=1.0,<2.0", "2.0.0") False and
\* ("==1.0.0", "1.0.0") True.
C13_RequirementHoldsIffAllClauses ==
    (call.fn = "validate_requirement" /\ call.step = 1) =>
        LET clauses == ClausesOf(call.a.s)
            all == \A k \in 1..Len(clauses) : ClauseHolds(clauses[k], call.b.s)
        IN  /\ call.first.ok => call.first.val = BoolV(all)
            /\ all => call.first = Ok(BoolV(TRUE))
            /\ (\A k \in 1..Len(clauses) : IsVersionText(ReferenceOf(clauses[k]))) => call.first.ok
            /\ (call.a.s = Text_GE10_LT20 /\ call.b.s = <<"1", ".", "5", ".", "0">>)
                  => call.first = Ok(BoolV(TRUE))
            /\ (call.a.s = Text_GE10_LT20 /\ call.b.s = <<"2", ".", "0", ".", "0">>)
                  => call.first = Ok(BoolV(FALSE))
            /\ (call.a.s = Text_EQ100 /\ call.b.s = <<"1", ".", "0", ".", "0">>)
                  => call.first = Ok(BoolV(TRUE))

\* validate_requirement(">=1.0,<2.0", "2.0.0") returned False: its first
\* clause holds and its second does not.
C13_Witness ==
    /\ call.fn = "validate_requirement"
    /\ call.step = 1
    /\ call.a.s = Text_GE10_LT20
    /\ call.b.s = <<"2", ".", "0", ".", "0">>
    /\ call.first = Ok(BoolV(FALSE))
    /\ ClauseHolds(ClausesOf(call.a.s)[1], call.b.s)
    /\ ~ClauseHolds(ClausesOf(call.a.s)[2], call.b.s)

\* C14 as claimed: for every type tag and every value its deserializer
\* accepts, the deserializer applied to its own result returns a value equal
\* (Python's ==) to that result.
C14_Claimed_DeserializeTwiceEqual ==
    (call.fn = "deserialize" /\ call.step = 2) =>
        /\ call.second.ok
        /\ PyEq(call.second.val, call.first.val)

\* C14, amended: for every type tag and every value its deserializer accepts,
\* the deserializer accepts its own result and returns it as it is, the same
\* type and the same content, which is equal (Python's ==) to the first result
\* unless that is the float NaN.
C14_DeserializeTwiceSame ==
    (call.fn = "deserialize" /\ call.step = 2) =>
        /\ call.second.ok
        /\ call.second.val = call.first.val
        /\ call.first.val # NaNV => PyEq(call.second.val, call.first.val)

\* The uuid deserializer turned a dashed text with capitals into 32 lower
\* case hexadecimal digits, and that text into itself.
C14_Witness ==
    /\ call.fn = "deserialize"
    /\ call.tag = "uuid"
    /\ call.step = 2
    /\ call.a = StrV(UuidText)
    /\ call.first.val # call.a
    /\ Len(call.first.val.s) = UUID_HEX_LEN
    /\ call.second = call.first

\* C15: every run of load_context that returns, with a warning for an
\* unreached target or with every variable omitted as well, returns a context
\* whose last two keys are _extensions and _jinja2_env_vars, holding what the
\* document has under extensions and jinja2_env_vars (None for an absent key);
\* before the return the context has neither key, so that no rendering of
\* the walk sees them.
C15_PassthroughKeysAfterWalk ==
    /\ pc = "done" =>
          /\ Len(context) >= 2
          /\ context[Len(context) - 1] =
                [name |-> EXTENSIONS_KEY, value |-> json_object.extensions]
          /\ context[Len(context)] =
                [name |-> JINJA2_ENV_VARS_KEY, value |-> json_object.jinja2_env_vars]
          /\ \A k \in 1..(Len(context) - 2) :
                context[k].name \notin {EXTENSIONS_KEY, JINJA2_ENV_VARS_KEY}
    /\ pc # "done" =>
          /\ ~HasKey(context, EXTENSIONS_KEY)
          /\ ~HasKey(context, JINJA2_ENV_VARS_KEY)

\* A run that rendered an expression and ended with a warning returned the
\* extensions and jinja2_env_vars of its document; another key precedes them.
C15_Witness ==
    /\ pc = "done"
    /\ warned
    /\ rendered # {}
    /\ Len(context) > 2
    /\ json_object.extensions # NoneV
    /\ Lookup(context, EXTENSIONS_KEY) = json_object.extensions
    /\ Lookup(context, JINJA2_ENV_VARS_KEY) = json_object.jinja2_env_vars

\* The walk is at a variable that a pending target makes it jump over.
AtJumpedOver ==
    /\ pc = "walk"
    /\ idx <= Len(variables)
    /\ skip_to_variable_name # NoName
    /\ variables[idx].name # skip_to_variable_name

\* The walk is at the variable the pending target names.
AtTarget ==
    /\ pc = "walk"
    /\ idx <= Len(variables)
    /\ skip_to_variable_name # NoName
    /\ variables[idx].name = skip_to_variable_name

\* C16: the iteration of a variable that a pending target jumps over changes
\* nothing but the position of the walk: no rendering, no prompt, the same
\* context, the same defaults and the same pending target.  The iteration of
\* the variable the target names renders its skip_if (it is checked), and
\* when it omits the variable no target is pending after it; the variable
\* after an omitted one is never jumped over.
C16_JumpedOverChangesNothing ==
    [][ /\ AtJumpedOver =>
              /\ idx' = idx + 1
              /\ pc' = "walk"
              /\ context' = context
              /\ variables' = variables
              /\ skip_to_variable_name' = skip_to_variable_name
              /\ rendered' = rendered
              /\ attempts' = attempts
              /\ tested' = tested
              /\ setter' = setter
              /\ warned' = warned
              /\ err' = err
        /\ AtTarget =>
              /\ outcome'[idx] \in {"skip_if", "do_if", "prompting", "stored", "raised"}
              /\ variables[idx].skip_if # <<>> => <<idx, "skip_if">> \in rendered'
              /\ outcome'[idx] \in {"skip_if", "do_if", "prompting"} =>
                    skip_to_variable_name' = NoName
              /\ outcome'[idx] = "stored" =>
                    skip_to_variable_name' =
                        NextSkipTo(variables[idx], Lookup(context', variables[idx].name))
        /\ ( /\ pc = "walk"
             /\ idx \in 2..Len(variables)
             /\ outcome[idx - 1] \in {"skip_if", "do_if"} ) => outcome'[idx] # "jumped"
      ]_vars

\* A target was set, the next variable jumped over and the variable the
\* target names omitted by its skip_if: the run returned without a warning.
C16_Witness ==
    /\ pc = "done"
    /\ Len(variables) = 3
    /\ outcome = <<"stored", "jumped", "skip_if">>
    /\ TargetSetBy(1) = variables[3].name
    /\ Untouched(2)
    /\ skip_to_variable_name = NoName
    /\ ~warned

\* C17 as claimed: a pending target was set by a variable of type yes_no, to
\* its if_yes_skip_to when it stored True and to its if_no_skip_to when it
\* stored False; a variable of another type sets none, whatever it declares
\* and stores.
C17_Claimed_OnlyYesNoSetsTarget ==
    /\ skip_to_variable_name # NoName =>
          /\ setter \in Positions
          /\ variables[setter].var_type = "yes_no"
          /\ skip_to_variable_name = TargetSetBy(setter)
    /\ \A i \in Positions :
          (outcome[i] = "stored" /\ variables[i].var_type # "yes_no" /\ idx = i + 1)
              => skip_to_variable_name = NoName

\* load_context has ended: it returned, or an exception left it.
Ended == pc \in {"done", "raised"}

\* The variable at v stored a value that sets a target naming v itself or a
\* variable declared before it.
BackwardTarget(v) ==
    /\ outcome[v] = "stored"
    /\ TargetSetBy(v) # NoName
    /\ \E j \in 1..v : variables[j].name = TargetSetBy(v)

\* The variables before the position of the walk are visited, those after it
\* untouched; behind a backward target all are jumped over.
VisitedBeforePosition ==
    /\ \A i \in Positions :
          /\ i < idx => outcome[i] \in {"jumped", "skip_if", "do_if", "stored"}
          /\ i > idx => outcome[i] = "none" /\ Untouched(i)
          /\ (BackwardTarget(i) /\ i = setter) =>
                 \A j \in (i + 1)..(idx - 1) : outcome[j] = "jumped" /\ Untouched(j)
    /\ pc = "done" => idx = Len(variables) + 1
    /\ Ended => (pc = "done" \/ err.kind # "none")

\* C18: the walk goes forward and ends.  The variables before the position
\* of the walk have been visited and those after it not yet; a step moves the
\* position by one or leaves it, and the iteration of a visited variable is
\* never run again (its outcome, its prompts and its renderings stay); after
\* a target that names the setting variable or an earlier one every later
\* variable is jumped over; and, every prompt loop being given in the end a
\* value it accepts, the walk, once the template is constructed, ends:
\* load_context returns unless an exception leaves it.
C18_WalkForwardAndEnds ==
    /\ []VisitedBeforePosition
    /\ [][ /\ idx' \in {idx, idx + 1}
           /\ \A i \in Positions :
                 i < idx =>
                    /\ outcome'[i] = outcome[i]
                    /\ attempts'[i] = attempts[i]
                    /\ variables'[i] = variables[i]
                    /\ \A f \in {"skip_if", "do_if", "default"} :
                          <<i, f>> \in rendered' <=> <<i, f>> \in rendered
         ]_vars
    /\ (pc \in {"walk", "prompt"}) ~> Ended

\* The second variable set a target that names the first: the third was
\* jumped over and the run returned with a warning.
C18_Witness ==
    /\ pc = "done"
    /\ Len(variables) = 3
    /\ BackwardTarget(2)
    /\ TargetSetBy(2) = variables[1].name
    /\ outcome[1] # "none"
    /\ outcome[3] = "jumped"
    /\ warned

\* During the walk every entry of the context was stored by a variable the
\* walk has passed, and a rendered default is the declared one rendered
\* against the entries of the variables declared before it.
EntriesOfEarlierVariables ==
    pc \in {"walk", "prompt", "raised"} =>
        /\ \A k \in 1..Len(context) :
              \E j \in 1..(idx - 1) :
                  variables[j].name = context[k].name /\ outcome[j] = "stored"
        /\ \A i \in Positions :
              IF <<i, "default">> \in rendered
              THEN variables[i].default =
                       StrV(jinja_render(json_object.variables[i].default.s, ContextBefore(i)))
              ELSE variables[i].default = json_object.variables[i].default

\* C19: during the walk the context only grows at its end.  A step of the
\* walk leaves the context as it is or appends one entry, under the name of
\* the variable at the position of the walk, and changes of the variables
\* nothing but the default of that variable; a step that renders and then
\* prompts leaves the context as it is; every rendering is made against the
\* entries of earlier variables only.
C19_ContextAppendOnly ==
    /\ []EntriesOfEarlierVariables
    /\ [][ (pc \in {"walk", "prompt"} /\ pc' # "done") =>
              /\ \/ context' = context
                 \/ /\ context' = Append(context, context'[Len(context')])
                    /\ context'[Len(context')].name = variables[idx].name
                    /\ outcome'[idx] = "stored"
              /\ pc' = "prompt" => context' = context
              /\ \A i \in Positions :
                    /\ i # idx => variables'[i] = variables[i]
                    /\ variables'[i] = [variables[i] EXCEPT !.default = variables'[i].default]
         ]_vars

\* The third variable was stored after its default was rendered from the
\* entry of an earlier one; the two earlier entries are as they were stored.
C19_Witness ==
    /\ pc = "walk"
    /\ idx = 4
    /\ Len(context) = 3
    /\ <<3, "default">> \in rendered
    /\ variables[3].default # json_object.variables[3].default
    /\ variables[3].default # StrV(jinja_render(json_object.variables[3].default.s, <<>>))
    /\ \A k \in 1..3 : context[k].name = variables[k].name

\* ---------------------------------------------------------- C20

\* The value of the reading a step of the prompt loop has just made.
LastRead == attempts'[idx][Len(attempts'[idx])]

\* The text typed at the JSON prompt of the variable at idx does not decode.
DecodeFailure(value) ==
    /\ variables[idx].var_type = "json"
    /\ Len(variables[idx].choices) = 0
    /\ value.t = "str"
    /\ value.s # <<>>
    /\ ~json_loads(value.s).ok

\* The text read for the variable at idx fails its validation pattern.
ValidationMismatch(value) ==
    /\ variables[idx].validate.on
    /\ value.t = "str"
    /\ ~Matches(idx, value)

\* C20: a reading of the prompt whose text does not decode as JSON or fails
\* the validation pattern leaves the walk in the prompt of the same variable
\* with the same default, the context, the pending jump target and the error
\* as they were; a step of the prompt loop that stays in the loop changes
\* none of them either; and the walk leaves the variable for the next one
\* only with the value that was read stored under its name.
C20_RejectedAttemptChangesNothing ==
    /\ [][ (pc = "prompt" /\ attempts' # attempts
              /\ (DecodeFailure(LastRead) \/ ValidationMismatch(LastRead)))
            => (pc' = "prompt" /\ err' = err) ]_vars
    /\ [][ (pc = "prompt" /\ pc' = "prompt")
            => /\ context' = context
               /\ skip_to_variable_name' = skip_to_variable_name
               /\ idx' = idx
               /\ variables' = variables
               /\ outcome' = outcome
               /\ err' = err ]_vars
    /\ [][ (pc = "prompt" /\ idx' # idx)
            => /\ idx' = idx + 1
               /\ outcome'[idx] = "stored"
               /\ ~HasKey(context, variables[idx].name)
               /\ HasKey(context', variables[idx].name)
               /\ ~DecodeFailure(LastRead)
               /\ ~ValidationMismatch(LastRead)
               /\ DESERIALIZERS(variables[idx].var_type, LastRead)
                     = Ok(Lookup(context', variables[idx].name)) ]_vars

\* A JSON variable was stored after a text that does not decode, with
\* nothing stored while the prompt asked again.
C20_Witness ==
    \E i \in Positions :
       /\ outcome[i] = "stored"
       /\ variables[i].var_type = "json"
       /\ attempts[i] = <<StrV(<<"[">>), ListV(<<>>)>>
       /\ Lookup(context, variables[i].name) = ListV(<<>>)

\* ---------------------------------------------------------- C21

\* The walk is at a variable that line 551 jumps over: a target is pending
\* and names another variable.
PendingTargetMismatch ==
    /\ skip_to_variable_name # NoName
    /\ variables[idx].name # skip_to_variable_name

\* The walk is at a variable one of the three continue statements omits.
AboutToOmit ==
    /\ pc = "walk"
    /\ idx <= Len(variables)
    /\ \/ PendingTargetMismatch
       \/ /\ variables[idx].skip_if # <<>>
          /\ jinja_render(variables[idx].skip_if, context) = TrueText
       \/ /\ variables[idx].do_if # <<>>
          /\ jinja_render(variables[idx].do_if, context) = FalseText

\* The variable at position i, visited and left by a continue statement, has
\* its default as it was constructed and never rendered, was never prompted
\* or matched against its pattern, has no entry and set no target.
NoTraceOf(i) ==
    /\ variables[i].default = VariableInit(json_object.variables[i]).val.default
    /\ <<i, "default">> \notin rendered
    /\ attempts[i] = <<>>
    /\ i \notin tested
    /\ ~HasKey(context, variables[i].name)
    /\ setter # i

\* C21: the iteration of a variable that is omitted (a pending target names
\* another variable, or its skip_if renders 'True', or its do_if renders
\* 'False') goes to the next variable with the variable list, the context
\* and the prompts as they were, its default not rendered, and the pending
\* target either as it was (jumped over) or None, never a target of its own;
\* and from then on the variable has no rendered default, no prompt, no
\* entry and is not the variable that set a target.
C21_OmittedHasNoEffect ==
    /\ [][ AboutToOmit =>
             /\ pc' = "walk"
             /\ idx' = idx + 1
             /\ outcome'[idx] \in {"jumped", "skip_if", "do_if"}
             /\ variables' = variables
             /\ context' = context
             /\ attempts' = attempts
             /\ tested' = tested
             /\ <<idx, "default">> \notin rendered'
             /\ setter' = setter
             /\ err' = err
             /\ skip_to_variable_name' =
                   IF PendingTargetMismatch THEN skip_to_variable_name ELSE NoName
          ]_vars
    /\ [](\A i \in Positions :
             outcome[i] \in {"jumped", "skip_if", "do_if"} => NoTraceOf(i))
    /\ [][ \A i \in Positions :
             outcome[i] \in {"jumped", "skip_if", "do_if"} => outcome'[i] = outcome[i] ]_vars

\* A yes_no variable with default True and if_yes_skip_to, omitted because
\* its skip_if rendered 'True' once the target of an earlier variable was
\* reached: the run returned with no entry for it, no target set by it and
\* no warning.
C21_Witness ==
    /\ pc = "done"
    /\ ~warned
    /\ \E i \in Positions :
          /\ outcome[i] = "skip_if"
          /\ variables[i].var_type = "yes_no"
          /\ variables[i].default = BoolV(TRUE)
          /\ variables[i].if_yes_skip_to # NoName
          /\ ~HasKey(context, variables[i].name)
          /\ setter # i
          /\ \E j \in Positions : j < i /\ setter = j /\ outcome[i - 1] = "stored"

=============================================================================
